---- MODULE Spec2Model ----
(***************************************************************************)
(* watermark-gen: AddWatermarkImage reads a main image and a watermark     *)
(* image, resizes the watermark when it exceeds the requested bounds,      *)
(* validates the offset, blends the watermark into the main image and      *)
(* saves the result.  The model follows src/unnamed/part_000 (the version  *)
(* with main() and the resize step); src/unnamed/part_001 holds the same   *)
(* ResizeImage, Blend and compositing loop without resize and save.        *)
(*                                                                         *)
(* Pixel buffers are *image.NRGBA: a rectangle and a row-major sequence of *)
(* 8-bit straight-alpha pixels.  Colours handed between At, Blend and Set  *)
(* are color.Color values: color.NRGBA (8-bit, straight alpha) or          *)
(* color.RGBA64 (16-bit, alpha-premultiplied).                             *)
(*                                                                         *)
(* The decoded inputs are PNG images with an alpha channel, which          *)
(* png.Decode returns as *image.NRGBA.  For a main image of another type   *)
(* AddWatermarkImage first copies it into a new NRGBA buffer               *)
(* (part_000:178-179); that copy is not modelled.                          *)
(***************************************************************************)
EXTENDS Integers, Sequences, FiniteSets, TLC

\* Largest width and height of a decoded main image.
MaxBase == 2
\* Largest width and height of a decoded watermark image.
MaxOv == 2

VARIABLES
    mainFile,        \* disk: the file at mainImagePath
    watermarkFile,   \* disk: the file at watermarkImagePath
    outExt,          \* filepath.Ext(outPath)
    outFile,         \* disk: the file at outPath
    x, y,            \* requested offset
    height, width,   \* requested watermark bounds
    pc,              \* position inside AddWatermarkImage
    mainImg,         \* the main image as decoded
    decodedMark,     \* the watermark image as decoded
    waterMarkImg,    \* the watermark image that is composited
    resized,         \* whether ResizeImage was called
    newImg,          \* the buffer that is composited into and saved
    written,         \* points whose pixel newImg.Set stored
    err              \* the error AddWatermarkImage returns

vars == <<mainFile, watermarkFile, outExt, outFile, x, y, height, width, pc,
          mainImg, decodedMark, waterMarkImg, resized, newImg, written, err>>

-----------------------------------------------------------------------------
(* Arithmetic helpers *)

Min(a, b) == IF a < b THEN a ELSE b
Max(a, b) == IF a > b THEN a ELSE b

\* uint8(v) of an unsigned value: the low byte.
Uint8(v) == v % 256

-----------------------------------------------------------------------------
(* image.Rectangle and *image.NRGBA *)

\* image.Rect(x0, y0, x1, y1): a well-formed rectangle, coordinates swapped
\* when given in the wrong order.
Rect(x0, y0, x1, y1) ==
    [minX |-> Min(x0, x1), minY |-> Min(y0, y1),
     maxX |-> Max(x0, x1), maxY |-> Max(y0, y1)]

Dx(r) == r.maxX - r.minX
Dy(r) == r.maxY - r.minY

PointIn(r, px, py) ==
    r.minX <= px /\ px < r.maxX /\ r.minY <= py /\ py < r.maxY

Transparent == [R |-> 0, G |-> 0, B |-> 0, A |-> 0]

\* A nil image pointer.
NilImage == [nil |-> TRUE, rect |-> Rect(0, 0, 0, 0), pix |-> <<>>]

\* image.NewNRGBA(r): every pixel zero.
NewNRGBA(r) ==
    [nil |-> FALSE, rect |-> r, pix |-> [k \in 1..(Dx(r) * Dy(r)) |-> Transparent]]

\* Index of (px, py) in the row-major pixel sequence.
PixOffset(img, px, py) ==
    (py - img.rect.minY) * Dx(img.rect) + (px - img.rect.minX) + 1

\* color.NRGBA and color.RGBA64 values.
NRGBAColor(p) == [m |-> "NRGBA", R |-> p.R, G |-> p.G, B |-> p.B, A |-> p.A]
RGBA64Color(r, g, b, a) == [m |-> "RGBA64", R |-> r, G |-> g, B |-> b, A |-> a]

\* img.At(px, py): the pixel's colour, the zero colour outside the rectangle.
At(img, px, py) ==
    IF PointIn(img.rect, px, py)
    THEN NRGBAColor(img.pix[PixOffset(img, px, py)])
    ELSE NRGBAColor(Transparent)

\* color.NRGBA.RGBA of one channel: widened to 16 bits and premultiplied.
Premultiply(c, a) == ((c * 257) * a) \div 255

\* c.RGBA(): 16-bit alpha-premultiplied channels.
RGBA(c) ==
    IF c.m = "NRGBA"
    THEN [r |-> Premultiply(c.R, c.A), g |-> Premultiply(c.G, c.A),
          b |-> Premultiply(c.B, c.A), a |-> c.A * 257]
    ELSE [r |-> c.R, g |-> c.G, b |-> c.B, a |-> c.A]

\* (c * 0xffff) / a in uint32 arithmetic, for c <= 0xffff and a > 0.  The
\* product is taken in two factors (0xffff = 255 * 257) to stay within the
\* model checker's 32-bit integers; the quotient is the same.
Unpremultiply(c, a) ==
    LET t == c * 255 IN
    (t \div a) * 257 + ((t % a) * 257) \div a

\* color.NRGBAModel.Convert(c): the pixel newImg.Set stores for colour c.
NRGBAModel(c) ==
    IF c.m = "NRGBA"
    THEN [R |-> c.R, G |-> c.G, B |-> c.B, A |-> c.A]
    ELSE LET v == RGBA(c) IN
         IF v.a = 65535
         THEN [R |-> Uint8(v.r \div 256), G |-> Uint8(v.g \div 256),
               B |-> Uint8(v.b \div 256), A |-> 255]
         ELSE IF v.a = 0
         THEN Transparent
         ELSE [R |-> Uint8(Unpremultiply(v.r, v.a) \div 256),
               G |-> Uint8(Unpremultiply(v.g, v.a) \div 256),
               B |-> Uint8(Unpremultiply(v.b, v.a) \div 256),
               A |-> Uint8(v.a \div 256)]

\* The bounds check of newImg.Set / newImage.SetNRGBA.
SetUnchecked(img, px, py) == TRUE
SetInRect(img, px, py) == PointIn(img.rect, px, py)

\* newImage.SetNRGBA(px, py, p): stores p, nothing outside the rectangle.
SetNRGBA(img, px, py, p) ==
    IF SetInRect(img, px, py)
    THEN [img EXCEPT !.pix = [k \in DOMAIN img.pix |->
                                 IF k = PixOffset(img, px, py) THEN p ELSE img.pix[k]]]
    ELSE img

\* newImg.Set(px, py, c): converts c to NRGBA and stores it.
Set(img, px, py, c) == SetNRGBA(img, px, py, NRGBAModel(c))

\* The points a nested loop "for i := x0; i < x0+nx" / "for j := y0; j < y0+ny"
\* visits, in order.
LoopPoints(x0, nx, y0, ny) ==
    [k \in 1..(nx * ny) |-> <<x0 + ((k - 1) \div ny), y0 + ((k - 1) % ny)>>]

-----------------------------------------------------------------------------
(* Errors *)

ErrOpen == "open"
ErrFormat == "has to be of type png, jpeg or gif"
ErrDecode == "decode"
ErrNilImage == "image is nil"
ErrOutOfBounds == "dimensions out of bounds"
ErrCreate == "create"
ErrEncode == "encode"

KnownExt == {".jpg", ".jpeg", ".png", ".gif"}

-----------------------------------------------------------------------------
(* ReadImage, ResizeImage, Blend *)

\* ReadImage(path) on the file found at path: os.Open, the extension switch,
\* the codec's Decode.
ReadImage(file) ==
    IF ~file.exists THEN [img |-> NilImage, err |-> ErrOpen]
    ELSE IF file.ext = "" THEN [img |-> NilImage, err |-> ErrFormat]
    ELSE IF file.ext \in KnownExt
         THEN IF file.valid
              THEN [img |-> file.img, err |-> "nil"]
              ELSE [img |-> NilImage, err |-> ErrDecode]
    ELSE [img |-> NilImage, err |-> ErrFormat]

\* The source coordinate of destination coordinate i:
\* int(float64(i) * float64(srcLen) / float64(dstLen)).  The operands are
\* small non-negative integers, so the float64 quotient truncates to the
\* integer quotient.
SourceCoord(i, srcLen, dstLen) == (i * srcLen) \div dstLen

\* color.NRGBA{uint8(R), uint8(G), uint8(B), uint8(A)} of colorAt.RGBA().
LowBytes(c) ==
    LET v == RGBA(c) IN
    [R |-> Uint8(v.r), G |-> Uint8(v.g), B |-> Uint8(v.b), A |-> Uint8(v.a)]

\* The two nested loops of ResizeImage, from the k-th visited point on.
RECURSIVE ResizeLoop(_, _, _, _)
ResizeLoop(img, newImage, pts, k) ==
    IF k > Len(pts) THEN newImage
    ELSE LET i == pts[k][1]
             j == pts[k][2]
             atX == SourceCoord(i, Dx(img.rect), Dx(newImage.rect))
             atY == SourceCoord(j, Dy(img.rect), Dy(newImage.rect))
             colorAt == At(img, atX, atY)
         IN  ResizeLoop(img, SetNRGBA(newImage, i, j, LowBytes(colorAt)), pts, k + 1)

ResizeImage(img, h, w) ==
    IF img.nil THEN [img |-> NilImage, err |-> ErrNilImage]
    ELSE LET newBounds == Rect(0, 0, w, h)
             newImage == NewNRGBA(newBounds)
         IN  [img |-> ResizeLoop(img, newImage,
                                 LoopPoints(0, Dx(newBounds), 0, Dy(newBounds)), 1),
              err |-> "nil"]

\* Quotient and remainder of a * b by 0xffff, for a, b <= 0xffff.  The
\* product is taken in parts (b = 256 * hi + lo) to stay within the model
\* checker's 32-bit integers.
Product(a, b) ==
    LET hi == b \div 256
        lo == b % 256
        shifted == a * 256
        rest == (shifted % 65535) * hi + a * lo
    IN  [quot |-> (shifted \div 65535) * hi + rest \div 65535, rem |-> rest % 65535]

\* uint16(float64(wc)*alpha + float64(mc)*(1-alpha)), alpha = wa/0xffff.
\* The exact value is (wc*wa + mc*(0xffff-wa))/0xffff; for every pair of
\* pixel values blended here (the palettes below, before and after
\* ResizeImage) the float64 evaluation, with or without fused multiply-add,
\* truncates to the same integer as the exact quotient.
Mix(wc, mc, wa) ==
    LET p == Product(wc, wa)
        q == Product(mc, 65535 - wa)
    IN  p.quot + q.quot + (p.rem + q.rem) \div 65535

\* A Blend that returns the watermark pixel in the fully transparent case.
BlendSwapped(watermark, main) ==
    LET w == RGBA(watermark)
        m == RGBA(main)
    IN  IF w.a = 0 THEN watermark
        ELSE IF w.a = 65535 THEN watermark
        ELSE RGBA64Color(Mix(w.r, m.r, w.a), Mix(w.g, m.g, w.a),
                         Mix(w.b, m.b, w.a), Max(w.a, m.a))

Blend(watermark, main) ==
    LET w == RGBA(watermark)
        m == RGBA(main)
    IN  IF w.a = 0 THEN main
        ELSE IF w.a = 65535 THEN watermark
        ELSE RGBA64Color(Mix(w.r, m.r, w.a), Mix(w.g, m.g, w.a),
                         Mix(w.b, m.b, w.a), Max(w.a, m.a))

-----------------------------------------------------------------------------
(* The steps of AddWatermarkImage *)

\* "resize image": the condition of the if statement.
NeedsResize(img, h, w) == Dx(img.rect) > w \/ Dy(img.rect) > h

\* "Validate the dimensions": both if statements.
OutOfBoundsStrict(px, py, w, h) == px < 0 \/ py < 0 \/ px >= w \/ py >= h
OutOfBounds(px, py, w, h) == px < 0 \/ py < 0 \/ px > w \/ py > h

\* The point newImg.Set is called with for loop indices (i, j).
TargetLocal(i, j, px, py) == <<i - px, j - py>>
Target(i, j, px, py) == <<i, j>>

\* "Add waterMarkImg to the image": the two nested loops, from the k-th
\* visited point on.  mainImg is an *image.NRGBA, so newImg is mainImg itself
\* and mainImg.At reads the buffer being written.
RECURSIVE CompositeLoop(_, _, _, _, _, _)
CompositeLoop(buf, stored, mark, px, py, k) ==
    LET pts == LoopPoints(px, Dx(mark.rect), py, Dy(mark.rect)) IN
    IF k > Len(pts) THEN [img |-> buf, stored |-> stored]
    ELSE LET i == pts[k][1]
             j == pts[k][2]
             waterMarkPixelColor == At(mark, i - px, j - py)
             mainImagePixelColor == At(buf, i, j)
             blendedColor == Blend(waterMarkPixelColor, mainImagePixelColor)
             t == Target(i, j, px, py)
         IN  CompositeLoop(Set(buf, t[1], t[2], blendedColor),
                           IF SetInRect(buf, t[1], t[2]) THEN stored \cup {t} ELSE stored,
                           mark, px, py, k + 1)

\* SaveImage(img, path): os.Create, the extension switch, the codec's Encode.
\* createOk and encodeOk are the file system's and the codec's answers.
SaveImage(ext, before, createOk, encodeOk) ==
    IF ~createOk THEN [file |-> before, err |-> ErrCreate]
    ELSE IF ext = "" THEN [file |-> "empty", err |-> ErrFormat]
    ELSE IF ext \in KnownExt
         THEN IF encodeOk
              THEN [file |-> "encoded", err |-> "nil"]
              ELSE [file |-> "partial", err |-> ErrEncode]
    ELSE [file |-> "empty", err |-> ErrFormat]

-----------------------------------------------------------------------------
(* Inputs *)

Px(r, g, b, a) == [R |-> r, G |-> g, B |-> b, A |-> a]

Red == Px(255, 0, 0, 255)
White == Px(255, 255, 255, 255)
Dim == Px(100, 100, 100, 255)
Black == Px(0, 0, 0, 255)
Glass == Px(200, 40, 0, 64)
Blue == Px(0, 0, 255, 255)
Green == Px(0, 255, 0, 255)
Gray50 == Px(128, 128, 128, 128)
SemiRed == Px(255, 0, 0, 128)
SemiDim == Px(100, 100, 100, 128)
Clear == Px(0, 0, 255, 0)

BasePixels == {Red, White, Dim, Black, Glass, Transparent}
OverlayPixels == {Blue, Green, Gray50, SemiRed, SemiDim, Clear}

BasePalette == <<Red, White, Dim, Glass>>
OpaqueMarkPalette == <<Blue, Green, White, Dim>>
MixedMarkPalette == <<SemiRed, Clear, Gray50, Blue>>

\* A decoded w x h image whose pixels cycle through the palette, row-major.
PaletteImage(w, h, palette) ==
    [nil |-> FALSE, rect |-> Rect(0, 0, w, h),
     pix |-> [k \in 1..(w * h) |-> palette[((k - 1) % Len(palette)) + 1]]]

ImageFile(ext, img) == [exists |-> TRUE, ext |-> ext, valid |-> TRUE, img |-> img]

\* Files ReadImage rejects: absent, without extension, with an unknown
\* extension, with contents the codec rejects.
BadFiles ==
    { [exists |-> FALSE, ext |-> ".png", valid |-> FALSE, img |-> NilImage],
      ImageFile("", PaletteImage(1, 1, BasePalette)),
      ImageFile(".bmp", PaletteImage(1, 1, BasePalette)),
      [exists |-> TRUE, ext |-> ".png", valid |-> FALSE, img |-> NilImage] }

Decodable(file) == ReadImage(file).err = "nil"

\* Every geometry: main and watermark images of every size, every offset
\* around the main image, every bound around the watermark size.
InitGeometry ==
    /\ mainFile \in { ImageFile(".png", PaletteImage(w, h, BasePalette)) :
                        w \in 1..MaxBase, h \in 1..MaxBase }
    /\ watermarkFile \in { ImageFile(".png", PaletteImage(w, h, p)) :
                             w \in 1..MaxOv, h \in 1..MaxOv,
                             p \in {OpaqueMarkPalette, MixedMarkPalette} }
    /\ x \in -1..(MaxBase + 1)
    /\ y \in -1..(MaxBase + 1)
    /\ height \in -1..MaxOv
    /\ width \in -1..MaxOv
    /\ outExt = ".png"
    /\ outFile = "absent"

\* Every pair of pixel values: a uniform watermark over a uniform main image.
InitPixels ==
    /\ mainFile \in { ImageFile(".png", PaletteImage(MaxBase, MaxBase, <<b>>)) :
                        b \in BasePixels }
    /\ watermarkFile \in { ImageFile(".png", PaletteImage(MaxOv, MaxOv, <<o>>)) :
                             o \in OverlayPixels }
    /\ x = 0
    /\ y = 0
    /\ height = MaxOv
    /\ width = MaxOv
    /\ outExt = ".jpg"
    /\ outFile = "absent"

\* Every kind of input file and output path.
InitFiles ==
    /\ mainFile \in BadFiles \cup {ImageFile(".png", PaletteImage(MaxBase, MaxBase, BasePalette))}
    /\ watermarkFile \in BadFiles \cup {ImageFile(".png", PaletteImage(1, 1, MixedMarkPalette))}
    /\ x = 0
    /\ y = 0
    /\ height = MaxOv
    /\ width = MaxOv
    /\ outExt \in KnownExt \cup {".bmp", ""}
    /\ outFile \in {"absent", "old"}

Init ==
    /\ \/ InitFiles
       \/ InitPixels
       \/ InitGeometry
    /\ pc = "start"
    /\ mainImg = NilImage
    /\ decodedMark = NilImage
    /\ waterMarkImg = NilImage
    /\ resized = FALSE
    /\ newImg = NilImage
    /\ written = {}
    /\ err = "nil"

-----------------------------------------------------------------------------
(* AddWatermarkImage, one action per step *)

args == <<mainFile, watermarkFile, outExt, x, y, height, width>>

\* "get mainImg image from the disk"
ReadMain ==
    /\ pc = "start"
    /\ LET r == ReadImage(mainFile) IN
       IF r.err # "nil"
       THEN /\ pc' = "failed"
            /\ err' = r.err
            /\ UNCHANGED mainImg
       ELSE /\ pc' = "readMain"
            /\ mainImg' = r.img
            /\ UNCHANGED err
    /\ UNCHANGED <<args, outFile, decodedMark, waterMarkImg, resized, newImg, written>>

\* "get the waterMarkImg image from the disk"
ReadWatermark ==
    /\ pc = "readMain"
    /\ LET r == ReadImage(watermarkFile) IN
       IF r.err # "nil"
       THEN /\ pc' = "failed"
            /\ err' = r.err
            /\ UNCHANGED <<decodedMark, waterMarkImg>>
       ELSE /\ pc' = "readWatermark"
            /\ decodedMark' = r.img
            /\ waterMarkImg' = r.img
            /\ UNCHANGED err
    /\ UNCHANGED <<args, outFile, mainImg, resized, newImg, written>>

\* "resize image"
Resize ==
    /\ pc = "readWatermark"
    /\ IF NeedsResize(waterMarkImg, height, width)
       THEN LET r == ResizeImage(waterMarkImg, height, width) IN
            IF r.err # "nil"
            THEN /\ pc' = "failed"
                 /\ err' = r.err
                 /\ UNCHANGED <<waterMarkImg, resized>>
            ELSE /\ pc' = "sized"
                 /\ waterMarkImg' = r.img
                 /\ resized' = TRUE
                 /\ UNCHANGED err
       ELSE /\ pc' = "sized"
            /\ UNCHANGED <<waterMarkImg, resized, err>>
    /\ UNCHANGED <<args, outFile, mainImg, decodedMark, newImg, written>>

\* "Validate the dimensions"
Validate ==
    /\ pc = "sized"
    /\ IF OutOfBounds(x, y, Dx(mainImg.rect), Dy(mainImg.rect))
       THEN /\ pc' = "failed"
            /\ err' = ErrOutOfBounds
       ELSE /\ pc' = "validated"
            /\ UNCHANGED err
    /\ UNCHANGED <<args, outFile, mainImg, decodedMark, waterMarkImg, resized,
                   newImg, written>>

\* "convert main image into *image.NRGBA" and "Add waterMarkImg to the image"
Composite ==
    /\ pc = "validated"
    /\ LET r == CompositeLoop(mainImg, {}, waterMarkImg, x, y, 1) IN
       /\ newImg' = r.img
       /\ written' = r.stored
    /\ pc' = "composited"
    /\ UNCHANGED <<args, outFile, mainImg, decodedMark, waterMarkImg, resized, err>>

\* SaveImage(newImg, outPath) and the return
Save ==
    /\ pc = "composited"
    /\ \E createOk \in BOOLEAN, encodeOk \in BOOLEAN :
         LET r == SaveImage(outExt, outFile, createOk, encodeOk) IN
         /\ outFile' = r.file
         /\ err' = r.err
         /\ pc' = IF r.err = "nil" THEN "done" ELSE "failed"
    /\ UNCHANGED <<args, mainImg, decodedMark, waterMarkImg, resized, newImg, written>>

Next ==
    \/ ReadMain
    \/ ReadWatermark
    \/ Resize
    \/ Validate
    \/ Composite
    \/ Save

Spec == Init /\ [][Next]_vars

-----------------------------------------------------------------------------
(* Properties *)

Channels == {"R", "G", "B"}

\* The compositing loop has run.
Composited == ~newImg.nil

\* The points of an image's pixel grid.
Grid(img) ==
    { <<i, j>> : i \in img.rect.minX..(img.rect.maxX - 1),
                 j \in img.rect.minY..(img.rect.maxY - 1) }

\* [x, x+overlayWidth) x [y, y+overlayHeight) of the composited watermark.
Footprint ==
    { <<i, j>> : i \in x..(x + Dx(waterMarkImg.rect) - 1),
                 j \in y..(y + Dy(waterMarkImg.rect) - 1) }

\* The watermark and main pixel colours blended at point p.
MarkAt(p) == At(waterMarkImg, p[1] - x, p[2] - y)
MainAt(p) == At(mainImg, p[1], p[2])
NewAt(p) == At(newImg, p[1], p[2])

OffsetInRange ==
    /\ 0 <= x /\ x <= Dx(mainImg.rect)
    /\ 0 <= y /\ y <= Dy(mainImg.rect)

BothDecoded == ~mainImg.nil /\ ~decodedMark.nil

SaveFailed ==
    \/ err \in {ErrCreate, ErrEncode}
    \/ err = ErrFormat /\ outExt \notin KnownExt

\* C1: the output file is created or written only after the composite, and
\* a run that returns an error has not created, truncated or written it.
C1_NoOutputOnError ==
    /\ outFile \notin {"absent", "old"} => Composited
    /\ pc = "failed" => outFile \in {"absent", "old"}

\* C2: with both inputs decoded, a finished run returned the out-of-bounds
\* error exactly when x < 0, y < 0, x > baseWidth or y > baseHeight, whatever
\* the watermark size and bounds; otherwise it returned an error only if the
\* save failed; and with x = baseWidth or y = baseHeight no main pixel changed.
C2_OffsetValidation ==
    (BothDecoded /\ pc \in {"done", "failed"}) =>
        IF x < 0 \/ y < 0 \/ x > Dx(mainImg.rect) \/ y > Dy(mainImg.rect)
        THEN err = ErrOutOfBounds /\ pc = "failed" /\ ~Composited
        ELSE /\ Composited
             /\ \/ pc = "done" /\ err = "nil"
                \/ pc = "failed" /\ SaveFailed
             /\ (x = Dx(mainImg.rect) \/ y = Dy(mainImg.rect)) =>
                    newImg = mainImg /\ written = {}

C2_Witness ==
    /\ pc = "done"
    /\ resized
    /\ x = Dx(mainImg.rect)
    /\ y < Dy(mainImg.rect)
    /\ Dx(waterMarkImg.rect) > 0
    /\ newImg = mainImg

\* C3: the watermark is resized exactly when it is wider than width or
\* higher than height; a resized watermark is width x height, each pixel the
\* nearest-neighbour sample of the decoded one; otherwise it is the decoded one.
C3_ConditionalResize ==
    pc \in {"sized", "validated", "composited", "done"} =>
        /\ resized <=> (Dx(decodedMark.rect) > width \/ Dy(decodedMark.rect) > height)
        /\ resized =>
             /\ Dx(waterMarkImg.rect) = width
             /\ Dy(waterMarkImg.rect) = height
             /\ \A i \in 0..(width - 1), j \in 0..(height - 1) :
                    At(waterMarkImg, i, j) =
                        At(decodedMark, (i * Dx(decodedMark.rect)) \div width,
                                        (j * Dy(decodedMark.rect)) \div height)
        /\ ~resized => waterMarkImg = decodedMark

\* C4: ResizeImage returns, without error, width*height pixels when both are
\* positive and no pixel when width <= 0 or height <= 0.
C4_ResizePixelCount ==
    resized =>
        /\ err # ErrNilImage
        /\ Len(waterMarkImg.pix) =
               IF width > 0 /\ height > 0 THEN width * height ELSE 0

\* C5: Blend returns the main pixel when the watermark alpha is 0 and the
\* watermark pixel when it is 255, and that pixel is what the composite stores.
C5_BlendEndpoints ==
    Composited =>
        \A p \in written :
            /\ MarkAt(p).A = 0 =>
                   Blend(MarkAt(p), MainAt(p)) = MainAt(p) /\ NewAt(p) = MainAt(p)
            /\ MarkAt(p).A = 255 =>
                   Blend(MarkAt(p), MainAt(p)) = MarkAt(p) /\ NewAt(p) = MarkAt(p)

C5_Witness ==
    /\ Composited
    /\ \E p \in written : MarkAt(p).A = 0 /\ MarkAt(p).B = 255 /\ MainAt(p).A = 255
    /\ \E p \in written : MarkAt(p).A = 255 /\ MainAt(p).A = 64

\* C6: where the watermark alpha is strictly between 0 and 255, each stored
\* colour channel lies between the main and the watermark channel values.
C6_BlendBetween ==
    Composited =>
        \A p \in written :
            (0 < MarkAt(p).A /\ MarkAt(p).A < 255) =>
                \A ch \in Channels :
                    /\ Min(MainAt(p)[ch], MarkAt(p)[ch]) <= NewAt(p)[ch]
                    /\ NewAt(p)[ch] <= Max(MainAt(p)[ch], MarkAt(p)[ch])

\* C7: a uniform gray watermark of alpha 128 over a uniform opaque white main
\* image stores, in every overlapped pixel, the average of gray and white in
\* each colour channel, within 1.
C7_HalfAlphaAverage ==
    ( /\ Composited
      /\ \A k \in DOMAIN waterMarkImg.pix : waterMarkImg.pix[k] = Gray50
      /\ \A k \in DOMAIN mainImg.pix : mainImg.pix[k] = White ) =>
        \A p \in written :
            \A ch \in Channels :
                /\ 2 * NewAt(p)[ch] - (Gray50[ch] + White[ch]) <= 2
                /\ (Gray50[ch] + White[ch]) - 2 * NewAt(p)[ch] <= 2

\* C8: the composite keeps the main image's rectangle and every pixel outside
\* the watermark's footprint; a fully opaque watermark that was not resized
\* replaces the pixels inside the footprint.
C8_OutsideFootprintUnchanged ==
    Composited =>
        /\ newImg.rect = mainImg.rect
        /\ Len(newImg.pix) = Len(mainImg.pix)
        /\ \A p \in Grid(mainImg) \ Footprint : NewAt(p) = MainAt(p)
        /\ (~resized /\ \A k \in DOMAIN waterMarkImg.pix : waterMarkImg.pix[k].A = 255) =>
               \A p \in Grid(mainImg) \cap Footprint : NewAt(p) = MarkAt(p)

C8_Witness ==
    /\ Composited
    /\ ~resized
    /\ \A k \in DOMAIN waterMarkImg.pix : waterMarkImg.pix[k].A = 255
    /\ x >= 1
    /\ Footprint \subseteq Grid(mainImg)
    /\ \E p \in Footprint : NewAt(p) # MainAt(p)
    /\ \E p \in Grid(mainImg) \ Footprint : p[1] < x

\* C9: each pixel (i, j) of a resized watermark equals the decoded pixel at
\* (floor(i*sourceWidth/width), floor(j*sourceHeight/height)), all four
\* channels unchanged.
C9_ResizeCopiesPixels ==
    (resized /\ width > 0 /\ height > 0) =>
        \A i \in 0..(width - 1), j \in 0..(height - 1) :
            At(waterMarkImg, i, j) =
                At(decodedMark, (i * Dx(decodedMark.rect)) \div width,
                                (j * Dy(decodedMark.rect)) \div height)

\* C10: an accepted offset whose watermark extends past the main image is not
\* rejected; exactly the pixels of the footprint clipped to the main image are
\* stored, each the blend of its watermark and main pixel, none outside the
\* pixel grid; the run fails only if the save fails.
C10_ClippedComposite ==
    ( /\ BothDecoded
      /\ pc \in {"composited", "done", "failed"}
      /\ OffsetInRange
      /\ \/ x + Dx(waterMarkImg.rect) > Dx(mainImg.rect)
         \/ y + Dy(waterMarkImg.rect) > Dy(mainImg.rect) ) =>
        /\ Composited
        /\ pc = "failed" => SaveFailed
        /\ written \subseteq Grid(newImg)
        /\ written =
             { <<i, j>> : i \in x..(Min(x + Dx(waterMarkImg.rect), Dx(mainImg.rect)) - 1),
                          j \in y..(Min(y + Dy(waterMarkImg.rect), Dy(mainImg.rect)) - 1) }
        /\ \A p \in written :
               newImg.pix[PixOffset(newImg, p[1], p[2])] =
                   NRGBAModel(Blend(MarkAt(p), MainAt(p)))
        /\ \A p \in Grid(newImg) \ written : NewAt(p) = MainAt(p)

C10_Witness ==
    /\ pc = "done"
    /\ OffsetInRange
    /\ x + Dx(waterMarkImg.rect) > Dx(mainImg.rect)
    /\ written # {}
    /\ \E p \in written : NewAt(p) # MainAt(p)

====
